---- MODULE Spec2Model ----
(***************************************************************************)
(* Model of src/src/dynamicBuffer.ts: setDynamicBuffer / getDynamicBuffer  *)
(* over the host's dynamic property store.  A text value is a sequence of  *)
(* 16-bit code units, a byte buffer a sequence of values in 0..255.        *)
(***************************************************************************)
EXTENDS Integers, Sequences, FiniteSets, TLC

\* ------------------------------------------------------------------------
\* Bounds of the check (not program constants)
\* ------------------------------------------------------------------------
MaxLen == 2

\* ------------------------------------------------------------------------
\* Program constants
\* ------------------------------------------------------------------------
MaxByteLength == 20476
WordMask == 32767
WordMark == 32768
ByteMask == 255

\* ------------------------------------------------------------------------
\* ECMAScript 32-bit integer arithmetic.  Every value is an int32
\* (-2^31 .. 2^31-1); intermediate results never leave that range.
\* ------------------------------------------------------------------------
Pow2(n) == 2 ^ n

RECURSIVE And32(_, _), Or32(_, _), Xor32(_, _)
\* a & b, a | b, a ^ b on two's-complement operands, bit by bit from bit 0;
\* an operand that has become 0 (all zeros) or -1 (all ones) ends the scan
And32(a, b) ==
    IF a = 0 \/ b = 0 THEN 0
    ELSE IF a = -1 THEN b
    ELSE IF b = -1 THEN a
    ELSE (a % 2) * (b % 2) + 2 * And32(a \div 2, b \div 2)

Or32(a, b) ==
    IF a = 0 THEN b
    ELSE IF b = 0 THEN a
    ELSE IF a = -1 \/ b = -1 THEN -1
    ELSE (IF (a % 2) + (b % 2) > 0 THEN 1 ELSE 0) + 2 * Or32(a \div 2, b \div 2)

Xor32(a, b) ==
    IF a = 0 THEN b
    ELSE IF b = 0 THEN a
    ELSE IF a = -1 /\ b = -1 THEN 0
    ELSE (((a % 2) + (b % 2)) % 2) + 2 * Xor32(a \div 2, b \div 2)

\* Shl32 on a 16-bit accumulator: bits shifted past bit 15 are lost
Shl32_short(a, n) ==
    LET k == n % 16
    IN  (a % Pow2(16 - k)) * Pow2(k)

\* a << n : shift count modulo 32, bits shifted past bit 31 are lost and
\* bit 31-n becomes the sign
Shl32(a, n) ==
    LET k == n % 32
        low == a % Pow2(31 - k)
        top == (a \div Pow2(31 - k)) % 2
    IN  IF k = 0 THEN a
        ELSE (low * Pow2(k) - top * Pow2(30)) - top * Pow2(30)

\* a >> n : sign-propagating right shift, shift count modulo 32
Sar32(a, n) ==
    LET k == n % 32
    IN  IF k = 31 THEN (IF a < 0 THEN -1 ELSE 0) ELSE a \div Pow2(k)

\* element conversions of the typed arrays
ToUint8(x) == x % 256
ToUint16(x) == x % 65536

\* ------------------------------------------------------------------------
\* The encoder of setDynamicBuffer (lines 64-87)
\* ------------------------------------------------------------------------
\* WordCapacity sized as for 7-bit words: Math.ceil((bufLen / 7) * 8) + 1
WordCapacity_over(bufLen) == ((bufLen * 8 + 6) \div 7) + 1

\* Math.ceil((bufLen / 15) * 8) + 1.  The double quotient is correctly
\* rounded and the product by 8 is exact; bufLen*8/15 is an integer or at
\* least 1/15 away from one, so the rounded value has the ceiling of the
\* exact one.
WordCapacity(bufLen) == ((bufLen * 8 + 14) \div 15) + 1

\* res[pos] = v on a Uint16Array of the given length: the value wraps to 16
\* bits, a store past the end is ignored
StoreWord(res, length, pos, v) ==
    IF pos < length THEN [res EXCEPT ![pos + 1] = ToUint16(v)] ELSE res

RECURSIVE EncodeDrain(_)
\* while (accBits >= 15) { accBits -= 15; res[bytePos++] = ... }
EncodeDrain(s) ==
    IF s.accBits >= 15
    THEN LET bits == s.accBits - 15
         IN  EncodeDrain([s EXCEPT
                 !.accBits = bits,
                 !.held = IF s.accBits > s.held THEN s.accBits ELSE s.held,
                 !.res = StoreWord(s.res, s.length, s.bytePos,
                            Or32(And32(Sar32(s.acc, bits), WordMask), WordMark)),
                 !.bytePos = s.bytePos + 1])
    ELSE s

\* one iteration of the for loop over the data bytes
EncodeByte(s, byte) ==
    EncodeDrain([s EXCEPT !.acc = Or32(Shl32(s.acc, 8), byte),
                          !.accBits = s.accBits + 8])

RECURSIVE EncodeBytes(_, _, _, _)
\* for (let i = lo; i < hi; i++) { ... }, i 0-based.  The iterations run in
\* order; the range is halved only to keep the evaluation depth logarithmic.
EncodeBytes(s, buf, lo, hi) ==
    IF hi <= lo THEN s
    ELSE IF hi = lo + 1 THEN EncodeByte(s, buf[lo + 1])
    ELSE LET mid == (lo + hi) \div 2
             left == EncodeBytes(s, buf, lo, mid)
         IN  IF left.accBits >= 0 THEN EncodeBytes(left, buf, mid, hi) ELSE left

\* EncodeTail with the final partial word forgotten
EncodeTail_dropped(s) == s

\* EncodeTail with the marker bit left off the final word
EncodeTail_unmarked(s) ==
    IF s.accBits > 0
    THEN [s EXCEPT !.res = StoreWord(s.res, s.length, s.bytePos,
              And32(Shl32(s.acc, 15 - s.accBits), WordMask)),
                   !.tail = TRUE]
    ELSE s

\* EncodeTail with the leftover bits left at the low end of the word
EncodeTail_unshifted(s) ==
    IF s.accBits > 0
    THEN [s EXCEPT !.res = StoreWord(s.res, s.length, s.bytePos,
              Or32(And32(s.acc, WordMask), WordMark)),
                   !.tail = TRUE]
    ELSE s

\* EncodeTail with the padding bits of the final word set to one
EncodeTail_onesPadded(s) ==
    IF s.accBits > 0
    THEN [s EXCEPT !.res = StoreWord(s.res, s.length, s.bytePos,
              Or32(Or32(And32(Shl32(s.acc, 15 - s.accBits), WordMask),
                        Pow2(15 - s.accBits) - 1), WordMark)),
                   !.tail = TRUE]
    ELSE s

\* if (accBits > 0) res[bytePos] = ...
EncodeTail(s) ==
    IF s.accBits > 0
    THEN [s EXCEPT !.res = StoreWord(s.res, s.length, s.bytePos,
              Or32(And32(Shl32(s.acc, 15 - s.accBits), WordMask), WordMark)),
                   !.tail = TRUE]
    ELSE s

\* the encoder's final state for the byte payload buf; held is the largest
\* number of bits the accumulator held when a word was extracted
EncodeRun(buf) ==
    LET bufLen == Len(buf)
        length == WordCapacity(bufLen)
        s0 == [res |-> StoreWord([j \in 1..length |-> 0], length, 0, bufLen),
               length |-> length,
               acc |-> 0, accBits |-> 0, bytePos |-> 1, tail |-> FALSE,
               held |-> 0]
    IN  EncodeTail(EncodeBytes(s0, buf, 0, bufLen))

\* number of words the encoder stored or tried to store, length word included
WordsWritten(s) == s.bytePos + (IF s.tail THEN 1 ELSE 0)

\* String.fromCharCode.apply(null, res): one code unit per word
Encode(buf) == EncodeRun(buf).res

\* ------------------------------------------------------------------------
\* The decoder of getDynamicBuffer (lines 118-146)
\* ------------------------------------------------------------------------
\* str.charCodeAt(0) with new ArrayBuffer(...): NaN for the empty string,
\* which allocates 0 bytes
DeclaredLength(str) == IF Len(str) = 0 THEN 0 ELSE str[1]

\* buf[pos] = v on a Uint8Array of s.byteLength bytes; a store past the end
\* is ignored by the typed array and recorded in oob
StoreByte(s, pos, v) ==
    IF pos < s.byteLength
    THEN [s EXCEPT !.buf = [s.buf EXCEPT ![pos + 1] = ToUint8(v)]]
    ELSE [s EXCEPT !.oob = TRUE]

RECURSIVE DecodeDrain_unguarded(_)
\* DecodeDrain without the check of bytePos against res.byteLength
DecodeDrain_unguarded(s) ==
    IF s.accBits >= 8
    THEN LET bits == s.accBits - 8
             t == StoreByte(s, s.bytePos, And32(Sar32(s.acc, bits), ByteMask))
         IN  DecodeDrain_unguarded([t EXCEPT
                 !.accBits = bits,
                 !.held = IF s.accBits > s.held THEN s.accBits ELSE s.held,
                 !.bytePos = s.bytePos + 1])
    ELSE s

RECURSIVE DecodeDrain(_)
\* while (accBits >= 8) { if (bytePos >= res.byteLength) break; ... }
DecodeDrain(s) ==
    IF s.accBits >= 8
    THEN IF s.bytePos >= s.byteLength THEN s
         ELSE LET bits == s.accBits - 8
                  t == StoreByte(s, s.bytePos, And32(Sar32(s.acc, bits), ByteMask))
              IN  DecodeDrain([t EXCEPT
                      !.accBits = bits,
                      !.held = IF s.accBits > s.held THEN s.accBits ELSE s.held,
                      !.bytePos = s.bytePos + 1])
    ELSE s

\* const code = str.charCodeAt(i) ^ 32768
WordCode(unit) == Xor32(unit, WordMark)

\* one iteration of the for loop over the code units
DecodeWord(s, unit) ==
    DecodeDrain([s EXCEPT !.acc = Or32(Shl32(s.acc, 15), WordCode(unit)),
                          !.accBits = s.accBits + 15])

RECURSIVE DecodeWords(_, _, _, _)
\* for (let i = lo; i < hi; i++) { ... }, i 0-based.  The iterations run in
\* order; the range is halved only to keep the evaluation depth logarithmic.
DecodeWords(s, str, lo, hi) ==
    IF hi <= lo THEN s
    ELSE IF hi = lo + 1 THEN DecodeWord(s, str[lo + 1])
    ELSE LET mid == (lo + hi) \div 2
             left == DecodeWords(s, str, lo, mid)
         IN  IF left.accBits >= 0 THEN DecodeWords(left, str, mid, hi) ELSE left

\* DecodeTail with the held bits left at the low end of the byte
DecodeTail_unshifted(s, bufLen) ==
    IF s.accBits > 0 /\ s.bytePos < bufLen
    THEN [StoreByte(s, s.bytePos, And32(s.acc, ByteMask)) EXCEPT !.tail = TRUE]
    ELSE s

\* if (accBits > 0 && bytePos < bufLen) buf[bytePos] = ...
DecodeTail(s, bufLen) ==
    IF s.accBits > 0 /\ s.bytePos < bufLen
    THEN [StoreByte(s, s.bytePos, And32(Shl32(s.acc, 8 - s.accBits), ByteMask))
             EXCEPT !.tail = TRUE]
    ELSE s

\* the decoder's final state for the text str; held is the largest number
\* of bits the accumulator held when a byte was extracted
DecodeRun(str) ==
    LET bufLen == DeclaredLength(str)
        s0 == [buf |-> [j \in 1..bufLen |-> 0], byteLength |-> bufLen,
               acc |-> 0, accBits |-> 0,
               bytePos |-> 0, oob |-> FALSE, tail |-> FALSE, held |-> 0]
    IN  DecodeTail(DecodeWords(s0, str, 1, Len(str)), bufLen)

\* the bytes of the returned ArrayBuffer
Decode(str) == DecodeRun(str).buf

\* ------------------------------------------------------------------------
\* Values of the model
\* ------------------------------------------------------------------------
\* identifiers a caller can pass: a string (possibly empty) or something else
StringId(t) == [isString |-> TRUE, text |-> t]
NonStringId == [isString |-> FALSE, text |-> "42"]
Keys == {"a", "b"}
Identifiers == {StringId(k) : k \in Keys} \cup {StringId(""), NonStringId}

\* values a dynamic property can hold
UndefinedValue == [type |-> "undefined", text |-> <<>>]
StringValue(t) == [type |-> "string", text |-> t]
OtherValues == {[type |-> ty, text |-> <<>>] : ty \in {"boolean", "number", "Vector3"}}

\* byte sources a caller can pass as the buffer argument
Undefined == [kind |-> "undefined", data |-> <<>>, byteOffset |-> 0, byteLength |-> 0]
NotABuffer == [kind |-> "other", data |-> <<>>, byteOffset |-> 0, byteLength |-> 0]
ArrayOf(elems) ==
    [kind |-> "Array", data |-> elems, byteOffset |-> 0, byteLength |-> Len(elems)]
ArrayBufferOf(bytes) ==
    [kind |-> "ArrayBuffer", data |-> bytes, byteOffset |-> 0, byteLength |-> Len(bytes)]
ViewOf(bytes, off, len) ==
    [kind |-> "View", data |-> bytes, byteOffset |-> off, byteLength |-> len]

\* n bytes of value b
RECURSIVE Fill(_, _)
Fill(n, b) ==
    IF n = 0 THEN <<>>
    ELSE IF n = 1 THEN <<b>>
    ELSE Fill(n \div 2, b) \o Fill(n - (n \div 2), b)
Ramp(n) == [i \in 1..n |-> (i * 37 + 11) % 256]
ByteValues == {0, 255}
FillLengths == {4, 7, 15, 16}
SmallPayloads == UNION {[1..n -> ByteValues] : n \in 1..MaxLen}
MaxPayload == Fill(MaxByteLength, 255)
LongPayloads ==
    {Fill(n, 255) : n \in FillLengths} \cup {Ramp(n) : n \in FillLengths}
    \cup {MaxPayload}
Payloads == SmallPayloads \cup LongPayloads
TooLong == Fill(MaxByteLength + 1, 0)

\* every shape of buffer argument, for calls on the first key
Sources ==
    {Undefined, NotABuffer}
    \cup {ArrayOf(p) : p \in SmallPayloads \cup {<<>>, <<322>>, <<-1, 256>>}}
    \cup {ArrayBufferOf(p) : p \in LongPayloads \cup {<<>>, <<66>>, TooLong}}
    \cup {ViewOf(<<66>>, 0, 1), ViewOf(<<0, 255>>, 0, 2), ViewOf(<<66>>, 0, 0),
          ViewOf(<<66, 255>>, 1, 1), ViewOf(<<0, 66, 255, 0>>, 1, 2),
          ViewOf(TooLong, 0, 1)}

\* one of each shape, for calls on the other identifiers
CoreSources ==
    {Undefined, NotABuffer, ArrayOf(<<>>), ArrayOf(<<66>>),
     ArrayBufferOf(<<255, 255>>), ViewOf(<<0, 66>>, 1, 1)}

SourcesFor(identifier) ==
    IF identifier = StringId("a") THEN Sources ELSE CoreSources

\* texts the host (or another script) can put in a property directly
LengthUnits == {1, 4}
WordUnits == {2, 32770}
MaxWords == 2
HostTexts ==
    {<<>>, <<0>>, <<0, 32770>>, <<MaxByteLength + 1>>}
    \cup UNION {{<<c[1]>> \o w : w \in [1..c[2] -> WordUnits]} :
                    c \in LengthUnits \X (0..MaxWords)}
HostValues == {UndefinedValue} \cup OtherValues \cup {StringValue(t) : t \in HostTexts}
CoreHostValues ==
    {UndefinedValue, [type |-> "number", text |-> <<>>], StringValue(<<1, 32770>>)}

HostValuesFor(key) == IF key = "a" THEN HostValues ELSE CoreHostValues

\* ------------------------------------------------------------------------
\* State
\* ------------------------------------------------------------------------
VARIABLES
    store,   \* the target's dynamic properties: key -> value
    last,    \* the most recent call and what it did
    origin   \* per key, who wrote the current value (history variable)

vars == <<store, last, origin>>

NoCall ==
    [op |-> "none", identifier |-> NonStringId, bufKind |-> "undefined",
     bufLen |-> 0, outcome |-> "none", result |-> <<>>, reads |-> 0,
     writes |-> 0, codec |-> FALSE, alloc |-> 0, words |-> 0, oob |-> FALSE,
     tail |-> FALSE, byteOffset |-> 0, byteLength |-> 0, held |-> 0]

Unwritten == [writer |-> "nobody", none |-> TRUE, payload |-> <<>>]

Init ==
    /\ store = [k \in Keys |-> UndefinedValue]
    /\ last = NoCall
    /\ origin = [k \in Keys |-> Unwritten]

\* ------------------------------------------------------------------------
\* setDynamicBuffer (lines 33-93)
\* ------------------------------------------------------------------------
\* new Uint8Array(buffer.buffer || buffer): a view contributes its whole
\* underlying ArrayBuffer, an ArrayBuffer itself, an array its elements
\* converted to bytes
Normalize(buffer) ==
    IF buffer.kind = "Array"
    THEN [i \in 1..Len(buffer.data) |-> ToUint8(buffer.data[i])]
    ELSE buffer.data

\* LengthRejected with the upper limit off by one
LengthRejected_exclusive(bufLen) == bufLen = 0 \/ bufLen >= MaxByteLength

\* bufLen === 0 || bufLen > 20476
LengthRejected(bufLen) == bufLen = 0 \/ bufLen > MaxByteLength

\* encoder and decoder runs of the values of this model, evaluated once and
\* looked up by the calls; a value outside the tables is run directly
MaxPayloadRun == EncodeRun(MaxPayload)
MaxTextRun == DecodeRun(MaxPayloadRun.res)
EncodeMemo ==
    [p \in {Normalize(b) : b \in {c \in Sources \cup CoreSources :
                c.kind \in {"Array", "ArrayBuffer", "View"}
                /\ Len(c.data) \in 1..(MaxByteLength - 1)}} |-> EncodeRun(p)]
Encoded(buf) ==
    IF Len(buf) = MaxByteLength /\ buf = MaxPayload THEN MaxPayloadRun
    ELSE IF buf \in DOMAIN EncodeMemo THEN EncodeMemo[buf] ELSE EncodeRun(buf)
DecodeMemo ==
    [t \in HostTexts \cup {EncodeMemo[p].res : p \in DOMAIN EncodeMemo} |-> DecodeRun(t)]
Decoded(str) ==
    IF Len(str) = MaxPayloadRun.length /\ str = MaxPayloadRun.res THEN MaxTextRun
    ELSE IF str \in DOMAIN DecodeMemo THEN DecodeMemo[str] ELSE DecodeRun(str)

\* a call that throws: nothing but the record of the call changes
Throws(op, identifier, buffer, error) ==
    /\ last' = [NoCall EXCEPT !.op = op, !.identifier = identifier,
                              !.bufKind = buffer.kind, !.outcome = error]
    /\ UNCHANGED <<store, origin>>

SetDynamicBuffer(identifier, buffer) ==
    IF ~identifier.isString
    THEN Throws("set", identifier, buffer, "TypeError")
    ELSE IF identifier.text = ""
    THEN Throws("set", identifier, buffer, "TypeError")
    ELSE IF buffer.kind = "undefined"
    THEN /\ store' = [store EXCEPT ![identifier.text] = UndefinedValue]
         /\ origin' = [origin EXCEPT ![identifier.text] =
                [writer |-> "setDynamicBuffer", none |-> TRUE, payload |-> <<>>]]
         /\ last' = [NoCall EXCEPT !.op = "set", !.identifier = identifier,
                                   !.bufKind = buffer.kind, !.outcome = "ok",
                                   !.writes = 1]
    ELSE IF buffer.kind \notin {"Array", "ArrayBuffer", "View"}
    THEN Throws("set", identifier, buffer, "TypeError")
    ELSE LET buf == Normalize(buffer)
             bufLen == Len(buf)
         IN  IF LengthRejected(bufLen)
             THEN /\ last' = [NoCall EXCEPT !.op = "set", !.identifier = identifier,
                                  !.bufKind = buffer.kind, !.bufLen = bufLen,
                                  !.byteOffset = buffer.byteOffset,
                                  !.byteLength = buffer.byteLength,
                                  !.outcome = "RangeError"]
                  /\ UNCHANGED <<store, origin>>
             ELSE LET enc == Encoded(buf)
                  IN  /\ store' = [store EXCEPT ![identifier.text] = StringValue(enc.res)]
                      /\ origin' = [origin EXCEPT ![identifier.text] =
                             [writer |-> "setDynamicBuffer", none |-> FALSE,
                              payload |-> buf]]
                      /\ last' = [NoCall EXCEPT !.op = "set",
                                      !.identifier = identifier,
                                      !.bufKind = buffer.kind, !.bufLen = bufLen,
                                      !.byteOffset = buffer.byteOffset,
                                      !.byteLength = buffer.byteLength,
                                      !.outcome = "ok", !.writes = 1,
                                      !.codec = TRUE, !.alloc = enc.length,
                                      !.words = WordsWritten(enc),
                                      !.tail = enc.tail, !.held = enc.held]

\* ------------------------------------------------------------------------
\* getDynamicBuffer (lines 103-147)
\* ------------------------------------------------------------------------
\* return undefined (line 115)
ReturnUndefined(identifier) ==
    /\ last' = [NoCall EXCEPT !.op = "get", !.identifier = identifier,
                              !.outcome = "undefined", !.reads = 1]
    /\ UNCHANGED <<store, origin>>

\* ReturnBuffer removing the property it has read
ReturnBuffer_consuming(identifier, str) ==
    LET dec == Decoded(str)
    IN  /\ last' = [NoCall EXCEPT !.op = "get", !.identifier = identifier,
                        !.bufLen = DeclaredLength(str),
                        !.outcome = "buffer", !.result = dec.buf,
                        !.reads = 1, !.codec = TRUE, !.alloc = dec.byteLength,
                        !.words = dec.bytePos + (IF dec.tail THEN 1 ELSE 0),
                        !.oob = dec.oob, !.tail = dec.tail,
                        !.held = dec.held]
        /\ store' = [store EXCEPT ![identifier.text] = UndefinedValue]
        /\ UNCHANGED origin

\* decode str and return the ArrayBuffer (lines 118-146)
ReturnBuffer(identifier, str) ==
    LET dec == Decoded(str)
    IN  /\ last' = [NoCall EXCEPT !.op = "get", !.identifier = identifier,
                        !.bufLen = DeclaredLength(str),
                        !.outcome = "buffer", !.result = dec.buf,
                        !.reads = 1, !.codec = TRUE, !.alloc = dec.byteLength,
                        !.words = dec.bytePos + (IF dec.tail THEN 1 ELSE 0),
                        !.oob = dec.oob, !.tail = dec.tail,
                        !.held = dec.held]
        /\ UNCHANGED <<store, origin>>

\* GetDynamicBuffer without the check for the empty identifier: the host is
\* asked for the property "", which holds nothing
GetDynamicBuffer_noEmptyCheck(identifier) ==
    IF ~identifier.isString
    THEN Throws("get", identifier, Undefined, "TypeError")
    ELSE LET str == IF identifier.text \in Keys THEN store[identifier.text]
                    ELSE UndefinedValue
         IN  IF str.type # "string" THEN ReturnUndefined(identifier)
             ELSE ReturnBuffer(identifier, str.text)

\* GetDynamicBuffer testing the stored value for truthiness (if (!str))
\* instead of its type
GetDynamicBuffer_falsy(identifier) ==
    IF ~identifier.isString
    THEN Throws("get", identifier, Undefined, "TypeError")
    ELSE IF identifier.text = ""
    THEN Throws("get", identifier, Undefined, "TypeError")
    ELSE LET str == store[identifier.text]
         IN  IF str.type # "string" \/ str.text = <<>>
             THEN ReturnUndefined(identifier)
             ELSE ReturnBuffer(identifier, str.text)

GetDynamicBuffer(identifier) ==
    IF ~identifier.isString
    THEN Throws("get", identifier, Undefined, "TypeError")
    ELSE IF identifier.text = ""
    THEN Throws("get", identifier, Undefined, "TypeError")
    ELSE LET str == store[identifier.text]
         IN  IF str.type # "string" THEN ReturnUndefined(identifier)
             ELSE ReturnBuffer(identifier, str.text)

\* ------------------------------------------------------------------------
\* The host API the two functions wrap: setDynamicProperty called directly
\* ------------------------------------------------------------------------
SetDynamicProperty(key, value) ==
    /\ store' = [store EXCEPT ![key] = value]
    /\ origin' = [origin EXCEPT ![key] =
           [writer |-> "host", none |-> value.type # "string", payload |-> <<>>]]
    /\ last' = [NoCall EXCEPT !.op = "host", !.identifier = StringId(key),
                              !.outcome = "ok", !.writes = 1]

Next ==
    \/ \E identifier \in Identifiers : \E buffer \in SourcesFor(identifier) :
           SetDynamicBuffer(identifier, buffer)
    \/ \E identifier \in Identifiers : GetDynamicBuffer(identifier)
    \/ \E key \in Keys : \E value \in HostValuesFor(key) :
           SetDynamicProperty(key, value)

Spec == Init /\ [][Next]_vars

\* ------------------------------------------------------------------------
\* Properties
\* ------------------------------------------------------------------------
ValidIdentifier(identifier) == identifier.isString /\ identifier.text # ""
ByteSourceKinds == {"Array", "ArrayBuffer", "View"}

\* key k holds what a successful setDynamicBuffer(k, payload) stored
HoldsPayload(k) == origin[k].writer = "setDynamicBuffer" /\ ~origin[k].none

\* the last call was a getDynamicBuffer with a valid identifier
LastGet == last.op = "get" /\ ValidIdentifier(last.identifier)

\* the last call was a setDynamicBuffer that ran the encoder
LastEncoded == last.op = "set" /\ last.outcome = "ok" /\ last.codec

\* C1: a getDynamicBuffer(k) that follows a successful setDynamicBuffer(k, p)
\* returns a buffer with exactly the bytes of p
RoundTrip ==
    (LastGet /\ HoldsPayload(last.identifier.text)) =>
        /\ last.outcome = "buffer"
        /\ last.result = origin[last.identifier.text].payload

RoundTripWitness ==
    /\ LastGet /\ HoldsPayload(last.identifier.text)
    /\ last.outcome = "buffer"
    /\ Len(last.result) = MaxByteLength
    /\ last.result[MaxByteLength] = 255

\* C2: the text handed to the store has 1 + ceil(L*8/15) code units, and the
\* encoder writes exactly as many words as it allocated
ExactWordCount ==
    LastEncoded =>
        LET n == Len(store[last.identifier.text].text)
        IN  /\ 15 * (n - 1) >= 8 * last.bufLen
            /\ 15 * (n - 2) < 8 * last.bufLen
            /\ last.alloc = n
            /\ last.words = last.alloc

ExactWordCountWitness ==
    LastEncoded /\ last.bufLen = 15 /\ last.words = 9

\* C3: a text written by setDynamicBuffer starts with the payload length,
\* unmarked and in 1..20476, and every later code unit has bit 15 set
WireFormat ==
    \A k \in Keys : HoldsPayload(k) =>
        LET t == store[k].text
        IN  /\ store[k].type = "string"
            /\ Len(t) >= 2
            /\ t[1] = Len(origin[k].payload)
            /\ t[1] \in 1..MaxByteLength
            /\ t[1] < WordMark
            /\ Tail(t) \in Seq(WordMark..65535)

WireFormatWitness ==
    /\ HoldsPayload("a") /\ Len(origin["a"].payload) = 16
    /\ HoldsPayload("b") /\ Len(store["b"].text) = 3

\* C4: a byte source of normalized length 0 or above 20476 makes
\* setDynamicBuffer throw a RangeError without a store call and without
\* changing any stored value; every length in 1..20476 is accepted and stored
SizeBoundary ==
    [][(/\ last'.op = "set"
        /\ ValidIdentifier(last'.identifier)
        /\ last'.bufKind \in ByteSourceKinds) =>
           IF last'.bufLen = 0 \/ last'.bufLen > 20476
           THEN /\ last'.outcome = "RangeError"
                /\ last'.writes = 0
                /\ ~last'.codec
                /\ store' = store
           ELSE /\ last'.outcome = "ok"
                /\ last'.writes = 1
                /\ store'[last'.identifier.text].type = "string"
                /\ store'[last'.identifier.text].text[1] = last'.bufLen
                /\ \A k \in Keys \ {last'.identifier.text} : store'[k] = store[k]
      ]_vars

SizeBoundaryWitness ==
    /\ last.op = "set" /\ last.outcome = "RangeError"
    /\ last.bufLen = 20477
    /\ \E k \in Keys : HoldsPayload(k) /\ Len(origin[k].payload) = 20476

\* C5: setDynamicBuffer and getDynamicBuffer reject an identifier that is not
\* a string or is empty with a TypeError, whatever the buffer argument,
\* without running the codec and without reading or writing the store
IdentifierValidation ==
    [][(last'.op \in {"set", "get"} /\ ~ValidIdentifier(last'.identifier)) =>
           /\ last'.outcome = "TypeError"
           /\ ~last'.codec
           /\ last'.reads = 0
           /\ last'.writes = 0
           /\ store' = store
      ]_vars

IdentifierValidationWitness ==
    /\ last.op = "set" /\ last.identifier = StringId("")
    /\ last.bufKind = "undefined" /\ last.outcome = "TypeError"
    /\ store["a"].type = "string"

\* C6: getDynamicBuffer(k) returns undefined exactly when the value held
\* under k is not text; setDynamicBuffer(k, undefined) forwards undefined to
\* the store without encoding, so the next getDynamicBuffer(k) returns
\* undefined and not an empty buffer
Absence ==
    /\ LastGet => (last.outcome = "undefined"
                      <=> store[last.identifier.text].type # "string")
    /\ LastGet => last.outcome \in {"undefined", "buffer"}
    /\ (last.op = "set" /\ last.bufKind = "undefined" /\ last.outcome = "ok") =>
           /\ ~last.codec
           /\ last.writes = 1
           /\ store[last.identifier.text] = UndefinedValue
    /\ \A k \in Keys : (origin[k].writer = "setDynamicBuffer" /\ origin[k].none) =>
           store[k] = UndefinedValue

AbsenceWitness ==
    /\ LastGet /\ last.outcome = "undefined"
    /\ origin[last.identifier.text].writer = "setDynamicBuffer"
    /\ origin[last.identifier.text].none

\* C7 as stated: the payload [0x42] is stored as the two words 1, 0x8210
SingleByteStated ==
    \A k \in Keys : (HoldsPayload(k) /\ origin[k].payload = <<66>>) =>
        store[k].text = <<1, 33296>>

\* C7 amended: the payload [0x42] is stored as the two words 1, 0xA100,
\* 0xA100 being 0x8000 | (0x42 << 7)
SingleByte ==
    \A k \in Keys : (HoldsPayload(k) /\ origin[k].payload = <<66>>) =>
        store[k].text = <<1, 41216>>

SingleByteWitness ==
    HoldsPayload("a") /\ origin["a"].payload = <<66>> /\ Len(store["a"].text) = 2

\* C8: getDynamicBuffer never allocates a buffer longer than 20476 bytes
BoundedAllocation ==
    (last.op = "get" /\ last.outcome = "buffer") =>
        last.alloc <= 20476 /\ Len(last.result) <= 20476

\* the text with bit 15 set on every code unit after the first
Marked(str) ==
    [i \in 1..Len(str) |-> IF i = 1 \/ str[i] >= WordMark THEN str[i]
                           ELSE str[i] + WordMark]

\* C9: the bytes decoded from a text do not depend on bit 15 of its payload
\* words: they are those of the text with bit 15 set everywhere, for which
\* the decoder's code is the word masked with 0x7FFF
MarkerIgnored ==
    (LastGet /\ last.outcome = "buffer") =>
        last.result = Decoded(Marked(store[last.identifier.text].text)).buf

\* C10: for a non-empty text with first code unit L, getDynamicBuffer returns
\* exactly L bytes, writes only at indexes 0..L-1 and writes at most L bytes
DecoderInBounds ==
    (LastGet /\ last.outcome = "buffer"
        /\ Len(store[last.identifier.text].text) > 0) =>
        LET L == store[last.identifier.text].text[1]
        IN  /\ Len(last.result) = L
            /\ last.alloc = L
            /\ ~last.oob
            /\ last.words <= L

DecoderInBoundsWitness ==
    /\ LastGet /\ last.outcome = "buffer"
    /\ ~HoldsPayload(last.identifier.text)
    /\ store[last.identifier.text].text = <<1, 32770, 2>>
    /\ last.words = 1

\* the last r bits of the payload p, as a number (r <= 14)
LastBits(p, r) ==
    LET n == Len(p)
    IN  ((IF n >= 2 THEN p[n - 1] * 256 ELSE 0) + p[n]) % Pow2(r)

\* C11: when L*8 is not a multiple of 15 the last word of the stored text has
\* bit 15 set, the r = L*8 mod 15 leftover payload bits at the high end of
\* its 15-bit field and zeros in the low 15 - r bits; [0xFF, 0xFF] is stored
\* as 2, 0xFFFF, 0xC000 and read back as [0xFF, 0xFF]
TailPadding ==
    /\ \A k \in Keys : HoldsPayload(k) =>
           LET p == origin[k].payload
               t == store[k].text
               r == (Len(p) * 8) % 15
               w == t[Len(t)] - WordMark
           IN  r > 0 =>
                   /\ w >= 0 /\ w < WordMark
                   /\ w % Pow2(15 - r) = 0
                   /\ w \div Pow2(15 - r) = LastBits(p, r)
    /\ \A k \in Keys : (HoldsPayload(k) /\ origin[k].payload = <<255, 255>>) =>
           store[k].text = <<2, 65535, 49152>>
    /\ (LastGet /\ HoldsPayload(last.identifier.text)
            /\ origin[last.identifier.text].payload = <<255, 255>>) =>
           last.result = <<255, 255>>

TailPaddingWitness ==
    /\ LastGet /\ last.identifier = StringId("b") /\ HoldsPayload("b")
    /\ origin["b"].payload = <<255, 255>> /\ last.outcome = "buffer"
    /\ HoldsPayload("a") /\ Len(origin["a"].payload) = 7

\* C12: when the code units run out with fewer than L bytes written and
\* 1..7 bits held, the held bits, shifted to the top of a byte and padded
\* with zeros, become the next byte and every later byte is 0; on a text
\* written by setDynamicBuffer that step never fires
ShortStream ==
    (LastGet /\ last.outcome = "buffer") =>
        LET t == store[last.identifier.text].text
            L == DeclaredLength(t)
            n == IF Len(t) = 0 THEN 0 ELSE Len(t) - 1
            full == (15 * n) \div 8
            r == (15 * n) % 8
        IN  /\ last.tail <=> (full < L /\ r > 0)
            /\ last.tail =>
                   /\ last.words = full + 1
                   /\ last.result[full + 1] = (t[Len(t)] % Pow2(r)) * Pow2(8 - r)
                   /\ \A j \in (full + 2)..L : last.result[j] = 0
            /\ HoldsPayload(last.identifier.text) => ~last.tail

ShortStreamWitness ==
    /\ LastGet /\ last.outcome = "buffer" /\ last.tail
    /\ store[last.identifier.text].text = <<4, 32770, 2>>
    /\ last.result[4] = 8

\* C13: setDynamicBuffer(k, x) changes the stored value of k only, by one
\* store call when it succeeds and none when it throws; getDynamicBuffer
\* changes no stored value; so, on a key only setDynamicBuffer has written,
\* getDynamicBuffer(k) returns the payload of the latest successful
\* setDynamicBuffer(k, payload), and undefined when that call passed undefined
\* or no call on k succeeded
KeyIsolation ==
    [][/\ last'.op = "set" =>
              /\ \A k \in Keys \ {last'.identifier.text} :
                     store'[k] = store[k] /\ origin'[k] = origin[k]
              /\ IF last'.outcome = "ok"
                 THEN /\ last'.writes = 1
                      /\ origin'[last'.identifier.text].writer = "setDynamicBuffer"
                      /\ origin'[last'.identifier.text].none
                             = (last'.bufKind = "undefined")
                      /\ Len(origin'[last'.identifier.text].payload) = last'.bufLen
                 ELSE last'.writes = 0 /\ store' = store /\ origin' = origin
       /\ last'.op = "get" =>
              /\ store' = store /\ origin' = origin
              /\ last'.writes = 0
       /\ (last'.op = "get" /\ ValidIdentifier(last'.identifier)
              /\ origin[last'.identifier.text].writer # "host") =>
              IF origin[last'.identifier.text].writer = "setDynamicBuffer"
                 /\ ~origin[last'.identifier.text].none
              THEN /\ last'.outcome = "buffer"
                   /\ last'.result = origin[last'.identifier.text].payload
              ELSE last'.outcome = "undefined"
      ]_vars

KeyIsolationWitness ==
    /\ LastGet /\ last.identifier = StringId("a") /\ last.outcome = "buffer"
    /\ HoldsPayload("a") /\ HoldsPayload("b")
    /\ origin["a"].payload = <<0, 255>> /\ origin["b"].payload = <<66>>
    /\ last.result = <<0, 255>>

\* C14: for a view over part of its underlying buffer, setDynamicBuffer
\* applies the size check to the view's byte length and stores the encoding
\* of exactly the bytes the view covers
ViewNormalized ==
    (last.op = "set" /\ ValidIdentifier(last.identifier) /\ last.bufKind = "View") =>
        /\ last.outcome \in {"ok", "RangeError"}
        /\ last.outcome = "RangeError"
               <=> (last.byteLength = 0 \/ last.byteLength > 20476)
        /\ last.outcome = "ok" =>
               /\ last.bufLen = last.byteLength
               /\ store[last.identifier.text].text =
                      Encode(SubSeq(origin[last.identifier.text].payload,
                                    last.byteOffset + 1,
                                    last.byteOffset + last.byteLength))

\* The payload p read as one unbounded bit string, most significant bit
\* first and followed by zeros: its w-th group of 15 bits.  This is the word
\* an accumulator of unbounded width gives at the w-th extraction.
ByteAt(p, i) == IF i + 1 \in DOMAIN p THEN p[i + 1] ELSE 0
WideWord(p, w) ==
    LET o == 15 * (w - 1)
        i == o \div 8
        window == ByteAt(p, i) * 65536 + ByteAt(p, i + 1) * 256 + ByteAt(p, i + 2)
    IN  (window \div Pow2(9 - (o % 8))) % 32768
WideText(p) ==
    [i \in 1..(((Len(p) * 8 + 14) \div 15) + 1) |->
        IF i = 1 THEN Len(p) ELSE WideWord(p, i - 1) + WordMark]

\* The 15-bit codes of the marked text t read as one unbounded bit string:
\* its j-th group of 8 bits, the byte an accumulator of unbounded width gives
\* at the j-th extraction.
CodeAt(t, i) == IF i + 2 \in DOMAIN t THEN t[i + 2] % 32768 ELSE 0
WideByte(t, j) ==
    LET o == 8 * (j - 1)
        i == o \div 15
        window == CodeAt(t, i) * 32768 + CodeAt(t, i + 1)
    IN  (window \div Pow2(22 - (o % 15))) % 256
WideBytes(t) == [j \in 1..t[1] |-> WideByte(t, j)]

\* C15: the 32-bit accumulators are never masked and wrap on << 8 and
\* << 15, but no extraction finds more than 22 bits held, so for every
\* payload setDynamicBuffer stores the words, and getDynamicBuffer returns
\* the bytes, that an accumulator of unbounded width gives
AccumulatorWidth ==
    /\ last.codec => last.held <= 22
    /\ LastEncoded =>
           store[last.identifier.text].text
               = WideText(origin[last.identifier.text].payload)
    /\ (LastGet /\ last.outcome = "buffer" /\ HoldsPayload(last.identifier.text)) =>
           last.result = WideBytes(store[last.identifier.text].text)

AccumulatorWidthWitness ==
    /\ LastGet /\ last.outcome = "buffer" /\ HoldsPayload(last.identifier.text)
    /\ origin[last.identifier.text].payload = Ramp(16)
    /\ last.held = 22
    /\ last.result[16] = 91

TypeOK ==
    /\ \A k \in Keys : store[k].type \in {"undefined", "boolean", "number", "Vector3", "string"}
    /\ last.op \in {"none", "set", "get", "host"}

====
